---- MODULE Spec2Model ----
(***************************************************************************)
(* Model of the API test harness: the HTTP client wrapper (ApiClient), the *)
(* issue service (IssueService) and the issueService fixture, which wraps  *)
(* createIssue to track created issues and closes them in its teardown.    *)
(*                                                                         *)
(* An async function is split at the awaits that wait for the outside      *)
(* world: the transport's response, response.text() and response.json().   *)
(* Everything a function does between two such awaits is one action.       *)
(***************************************************************************)
EXTENDS Integers, Sequences, FiniteSets, TLC

(***************************************************************************)
(* Bounds of the model.                                                    *)
(***************************************************************************)
\* Calls a test body makes.
MaxCalls == 3
\* Calls a test body has in flight at once.
MaxInFlight == 2
\* Calls the bodies of concurrent tests make, all tests together.
MaxTestsCalls == 2
\* Calls made in a run of the service specification.
MaxServiceCalls == 1
\* Calls a test body makes in the specification of the interception.
MaxInterceptCalls == 3
\* Payloads the factory builds in a run.
MaxPayloads == 2
\* Fields of a conforming value that are removed or replaced before validation.
MaxDefects == 2

\* The tests of a run, each with its own fixture instance.
Tests == {1, 2}

Owners == {"o"}
Repos == {"r"}

\* Arguments of the calls of the service specification.
ServiceOwners == {"o", "tlm2c09"}
IssueNumbers == {1, 42}
Paths == {"/user"}

\* JavaScript's undefined, where a number is expected (body.number of a body
\* that has no such property).
Undefined == -1

\* No payload: the data argument is undefined (sendGetRequest without params,
\* sendDeleteRequest).
NoData == [undefined |-> TRUE]

IssuePayloads == {[title |-> "T"]}
PartialPayloads == {[title |-> "New Title"], [body |-> "B"]}

\* Response statuses the transport answers with: one success, one failure.
Statuses == {201, 404}

\* What the body of the success response to a creation decodes to: an object
\* with a number, an object without one, null, or nothing (json() faults).
\* Every other response has a body of kind "other", an object without number.
BodyKinds == {"issue", "noNumber", "null", "nonjson"}

NoResponse == [status |-> 0, kind |-> "none", number |-> Undefined]

(***************************************************************************)
(* The transport's response: APIResponse.ok().                             *)
(***************************************************************************)
ok(response) == response.status >= 200 /\ response.status < 300

(***************************************************************************)
(* ApiClient: each operation issues one transport request.                 *)
(***************************************************************************)
sendGetRequest(path, params) == [method |-> "GET", path |-> path, data |-> params]

sendPostRequest(path, data) == [method |-> "POST", path |-> path, data |-> data]

sendPutRequest(path, data) == [method |-> "PUT", path |-> path, data |-> data]

sendPatchRequest(path, data) == [method |-> "PATCH", path |-> path, data |-> data]

sendDeleteRequest(path) == [method |-> "DELETE", path |-> path, data |-> NoData]

\* Template-literal conversion of a number: `${issueNumber}`.
NumberToString(n) == IF n = Undefined THEN "undefined" ELSE ToString(n)

(***************************************************************************)
(* IssueService.                                                           *)
(***************************************************************************)
buildIssuesEndpoint(owner, repo) == "/repos/" \o owner \o "/" \o repo \o "/issues"

buildIssueEndpoint(owner, repo, issueNumber) ==
    buildIssuesEndpoint(owner, repo) \o "/" \o NumberToString(issueNumber)

createIssue(owner, repo, payload) ==
    sendPostRequest(buildIssuesEndpoint(owner, repo), payload)

getIssues(owner, repo) == sendGetRequest(buildIssuesEndpoint(owner, repo), NoData)

getIssueByNumber(owner, repo, issueNumber) ==
    sendGetRequest(buildIssueEndpoint(owner, repo, issueNumber), NoData)

updateIssue(owner, repo, issueNumber, payload) ==
    sendPatchRequest(buildIssueEndpoint(owner, repo, issueNumber), payload)

\* closeIssue with the method GitHub documents for closing an issue.
closeIssuePatch(owner, repo, issueNumber) ==
    sendPatchRequest(buildIssueEndpoint(owner, repo, issueNumber), [state |-> "closed"])

closeIssue(owner, repo, issueNumber) ==
    sendPostRequest(buildIssueEndpoint(owner, repo, issueNumber), [state |-> "closed"])

reopenIssue(owner, repo, issueNumber) ==
    sendPostRequest(buildIssueEndpoint(owner, repo, issueNumber), [state |-> "open"])


(***************************************************************************)
(* State.                                                                  *)
(***************************************************************************)
VARIABLES
    phase,        \* per test: "body", "exited", "teardown", "done", "aborted"
    exit,         \* per test: how the test body ended ("none" while it runs)
    tracked,      \* createdIssueNumbers, one array per fixture instance
    calls,        \* per test: the service and client calls made, in call order
    requests,     \* per test: the requests its transport received, in order
    nextNumber,   \* the server's next issue number
    tdIdx,        \* per test: position of the teardown loop in the array
    tdCall,       \* per test: the close call the teardown loop awaits (0: none)
    tdLen,        \* per test: length of the array when teardown reversed it
    pushOrder,    \* per test: history of the wrapper's pushes, in push order
    now,          \* the current date, as a position in Dates
    payloads,     \* the payloads IssueFactory.createIssueInfo has returned, in order
    received,     \* the value handed to toMatchSchema
    schema,       \* the contract handed to toMatchSchema with it
    matcherResult \* what toMatchSchema has returned for them

\* The state of the fixture, its service and its client.
fixtureVars == <<phase, exit, tracked, calls, requests, nextNumber, tdIdx, tdCall, tdLen, pushOrder>>

\* The state the factory and the schema matcher work with.
factoryVars == <<now, payloads>>

matcherVars == <<received, schema, matcherResult>>

libVars == <<factoryVars, matcherVars>>

vars == <<fixtureVars, libVars>>

ExitKinds == {"passed", "assertionFailed", "faulted"}

\* One array for all tests, as if declared at module level.
SlotShared(t) == 1

\* The array a fixture instance's wrapper and teardown use: createdIssueNumbers
\* is declared inside the fixture function, so each test has its own.
Slot(t) == t

RECURSIVE Reverse(_)
\* Array.prototype.reverse.
Reverse(s) == IF s = <<>> THEN <<>> ELSE Append(Reverse(Tail(s)), Head(s))

\* Teardown taking the records out of the array, which it leaves empty.
TeardownOrderCleared(s) == <<>>

\* Teardown walking the array without reversing it.
TeardownOrderForward(s) == s

\* The order in which teardown walks the array (reverse() in place).
TeardownOrder(s) == Reverse(s)

\* The wrapper tracking whatever the status.
ShouldTrackAlways(response) == TRUE

\* The wrapper's test before tracking: if (response.ok()).
ShouldTrack(response) == ok(response)

\* The record the wrapper pushes: { owner, repo, number: body.number }.
TrackedRecord(owner, repo, response) ==
    [owner |-> owner, repo |-> repo,
     number |-> IF response.kind = "issue" THEN response.number ELSE Undefined]

\* The record put at the front of the array.
unshift(array, record) == <<record>> \o array

\* Array.prototype.push: the record goes to the end of the array.
push(array, record) == Append(array, record)

\* A close call for the number after the record's.
TeardownCloseNext(issue) ==
    [op |-> "closeIssue",
     args |-> [owner |-> issue.owner, repo |-> issue.repo, number |-> issue.number + 1]]

\* The close call of one teardown iteration.
TeardownClose(issue) ==
    [op |-> "closeIssue",
     args |-> [owner |-> issue.owner, repo |-> issue.repo, number |-> issue.number]]

\* The transport request an operation issues for its arguments.
RequestOf(op, args) ==
    CASE op = "createIssue" -> createIssue(args.owner, args.repo, args.data)
      [] op = "getIssues" -> getIssues(args.owner, args.repo)
      [] op = "getIssueByNumber" -> getIssueByNumber(args.owner, args.repo, args.number)
      [] op = "updateIssue" -> updateIssue(args.owner, args.repo, args.number, args.data)
      [] op = "closeIssue" -> closeIssue(args.owner, args.repo, args.number)
      [] op = "reopenIssue" -> reopenIssue(args.owner, args.repo, args.number)
      [] op = "sendGetRequest" -> sendGetRequest(args.path, args.data)
      [] op = "sendPostRequest" -> sendPostRequest(args.path, args.data)
      [] op = "sendPutRequest" -> sendPutRequest(args.path, args.data)
      [] op = "sendPatchRequest" -> sendPatchRequest(args.path, args.data)
      [] op = "sendDeleteRequest" -> sendDeleteRequest(args.path)

\* A call that has just been made: its request is with the transport.
NewCall(op, args, by) ==
    [op |-> op, args |-> args, by |-> by,
     pc |-> "inflight", response |-> NoResponse,
     orig |-> "pending", origRet |-> NoResponse, ret |-> NoResponse, fault |-> "none",
     log |-> <<>>]

\* Logger.info, Logger.debug and Logger.error: one entry of the given level.
info(message) == [level |-> "info", message |-> message]

debug(message) == [level |-> "debug", message |-> message]

error(message) == [level |-> "error", message |-> message]

\* JSON.stringify of a payload: its fields, title before body, with their values.
Stringify(data) ==
    "{" \o (IF "title" \in DOMAIN data THEN "\"title\": \"" \o data.title \o "\"" ELSE "")
        \o (IF "body" \in DOMAIN data THEN "\"body\": \"" \o data.body \o "\"" ELSE "")
        \o "}"

\* if (data): the payloads here are objects, which are truthy, or undefined.
Truthy(data) == data # NoData

\* What logRequest logs before it tests the status: method and path, the
\* payload if there is one, and the status (the status text is left out).
LogLines(request, response) ==
    <<info("[" \o request.method \o "] " \o request.path)>>
    \o (IF Truthy(request.data) THEN <<debug("Payload: " \o Stringify(request.data))>> ELSE <<>>)
    \o <<info("Status: " \o ToString(response.status))>>

\* What logRequest logs once the body text of a failed response is fetched;
\* the text of a body stands as the kind of the body.
LogErrorBody(response) == error("Error Body: " \o response.kind)

\* logRequest: where the client operation stands once its response is logged.
\* A failed response has its body text fetched before the operation returns.
logRequest(response) == IF ~ok(response) THEN "readingText" ELSE "logged"

\* A client operation returning the decoded body in place of the response.
ClientReturnDecoded(response) == [response EXCEPT !.kind = "decoded"]

\* The value a client operation returns: return response.
ClientReturn(response) == response

\* The call after the client operation (and with it the service operation) has
\* returned response. The wrapped createIssue goes on to decode the body of a
\* success response; every other operation returns to its caller.
AfterOperation(call, response) ==
    IF call.op = "createIssue" /\ ShouldTrack(ClientReturn(response))
    THEN [call EXCEPT !.pc = "decoding", !.orig = "returned",
                      !.origRet = ClientReturn(response)]
    ELSE [call EXCEPT !.pc = "returned", !.orig = "returned",
                      !.origRet = ClientReturn(response),
                      !.ret = ClientReturn(response)]

BodyCalls(t) == {c \in 1..Len(calls[t]) : calls[t][c].by = "body"}

InFlight(t) == {c \in BodyCalls(t) : calls[t][c].pc \notin {"returned", "threw"}}

RECURSIVE SumOver(_, _)
SumOver(S, f) ==
    IF S = {} THEN 0
    ELSE LET x == CHOOSE y \in S : TRUE IN f[x] + SumOver(S \ {x}, f)

TotalBodyCalls == SumOver(Tests, [t \in Tests |-> Cardinality(BodyCalls(t))])

\* No value: no date read, nothing handed to the matcher, nothing returned.
None == [none |-> TRUE]

InitFixture ==
    /\ phase = [t \in Tests |-> "body"]
    /\ exit = [t \in Tests |-> "none"]
    /\ tracked = [t \in Tests |-> <<>>]
    /\ calls = [t \in Tests |-> <<>>]
    /\ requests = [t \in Tests |-> <<>>]
    /\ nextNumber = 1
    /\ tdIdx = [t \in Tests |-> 0]
    /\ tdCall = [t \in Tests |-> 0]
    /\ tdLen = [t \in Tests |-> 0]
    /\ pushOrder = [t \in Tests |-> <<>>]

Init ==
    /\ InitFixture
    /\ now = 1
    /\ payloads = <<>>
    /\ received = None
    /\ schema = None
    /\ matcherResult = None

(***************************************************************************)
(* The test body calls an operation of the service or of the client: the   *)
(* operation builds its request and hands it to the transport.             *)
(***************************************************************************)
StartCall(t, op, args, bound) ==
    /\ phase[t] = "body"
    /\ TotalBodyCalls < bound
    /\ Cardinality(InFlight(t)) < MaxInFlight
    /\ calls' = [calls EXCEPT ![t] = Append(@, NewCall(op, args, "body"))]
    /\ requests' = [requests EXCEPT ![t] = Append(@, RequestOf(op, args))]
    /\ UNCHANGED <<phase, exit, tracked, nextNumber, tdIdx, tdCall, tdLen, pushOrder, libVars>>

\* The response the transport gives to a call. A creation answered with a
\* success status has created the server's next issue, and its body may or
\* may not decode to an issue; no other response has its body decoded.
Response(call, status, kind) ==
    IF call.op = "createIssue" /\ status >= 200 /\ status < 300
    THEN [status |-> status, kind |-> kind, number |-> nextNumber]
    ELSE [status |-> status, kind |-> "other", number |-> Undefined]

\* The transport resolves with a response: the client operation logs it
\* (logRequest) and, unless it has to fetch the body text first, returns it.
TransportResponds(t, c, status, kind) ==
    /\ c \in 1..Len(calls[t])
    /\ calls[t][c].pc = "inflight"
    /\ LET call == calls[t][c]
           response == Response(call, status, kind)
       IN  \* the kind is a choice for the body of a created issue only
           /\ response.kind = kind \/ kind = "issue"
           /\ nextNumber' = IF response.number = Undefined
                            THEN nextNumber ELSE nextNumber + 1
           /\ calls' = [calls EXCEPT ![t][c] =
                    LET logged == [call EXCEPT !.response = response,
                                               !.log = LogLines(requests[t][c], response)]
                    IN  IF logRequest(response) = "readingText"
                        THEN [logged EXCEPT !.pc = "readingText"]
                        ELSE AfterOperation(logged, response)]
    /\ UNCHANGED <<phase, exit, tracked, requests, tdIdx, tdCall, tdLen, pushOrder, libVars>>

\* The transport raises a fault: it propagates through the client operation,
\* the service operation and the wrapper to the caller.
TransportFaults(t, c) ==
    /\ c \in 1..Len(calls[t])
    /\ calls[t][c].pc = "inflight"
    /\ calls' = [calls EXCEPT ![t][c] =
                    [@ EXCEPT !.pc = "threw", !.orig = "threw", !.fault = "transport"]]
    /\ UNCHANGED <<phase, exit, tracked, requests, nextNumber, tdIdx, tdCall, tdLen, pushOrder, libVars>>

\* response.text() of a failed response resolves: logRequest logs it and the
\* client operation returns the response.
TextResolves(t, c) ==
    /\ c \in 1..Len(calls[t])
    /\ calls[t][c].pc = "readingText"
    /\ LET call == calls[t][c]
           logged == [call EXCEPT !.log = Append(@, LogErrorBody(call.response))]
       IN  calls' = [calls EXCEPT ![t][c] = AfterOperation(logged, call.response)]
    /\ UNCHANGED <<phase, exit, tracked, requests, nextNumber, tdIdx, tdCall, tdLen, pushOrder, libVars>>

\* response.json() settles in the wrapper: a decoded body has its number
\* pushed and the response is returned; a body that does not decode, or that
\* decodes to null, makes the wrapper throw.
JsonSettles(t, c) ==
    /\ c \in 1..Len(calls[t])
    /\ calls[t][c].pc = "decoding"
    /\ LET call == calls[t][c]
           record == TrackedRecord(call.args.owner, call.args.repo, call.origRet)
       IN  IF call.origRet.kind \in {"issue", "noNumber", "other"}
           THEN /\ tracked' = [tracked EXCEPT ![Slot(t)] = push(@, record)]
                /\ pushOrder' = [pushOrder EXCEPT ![t] =
                                    Append(@, [cid |-> c, record |-> record])]
                /\ calls' = [calls EXCEPT ![t][c] =
                                [@ EXCEPT !.pc = "returned", !.ret = call.origRet]]
           ELSE /\ calls' = [calls EXCEPT ![t][c] =
                                [@ EXCEPT !.pc = "threw",
                                          !.fault = IF call.origRet.kind = "null"
                                                    THEN "typeError" ELSE "decode"]]
                /\ UNCHANGED <<tracked, pushOrder>>
    /\ UNCHANGED <<phase, exit, requests, nextNumber, tdIdx, tdCall, tdLen, libVars>>


(***************************************************************************)
(* The fixture: await use(issueService), then the teardown loop.           *)
(***************************************************************************)
\* The test body ends: it completes, an assertion fails or a fault escapes.
BodyExits(t, kind) ==
    /\ phase[t] = "body"
    /\ phase' = [phase EXCEPT ![t] = "exited"]
    /\ exit' = [exit EXCEPT ![t] = kind]
    /\ UNCHANGED <<tracked, calls, requests, nextNumber, tdIdx, tdCall, tdLen, pushOrder, libVars>>

\* One evaluation of the for-of loop over array from position i: either the
\* close call for array[i] is made and awaited, or the loop and with it the
\* fixture function ends.
TeardownIterate(t, array, i) ==
    IF i <= Len(array)
    THEN LET close == TeardownClose(array[i])
         IN  /\ calls' = [calls EXCEPT ![t] =
                            Append(@, NewCall(close.op, close.args, "teardown"))]
             /\ requests' = [requests EXCEPT ![t] =
                            Append(@, RequestOf(close.op, close.args))]
             /\ tdIdx' = [tdIdx EXCEPT ![t] = i]
             /\ tdCall' = [tdCall EXCEPT ![t] = Len(calls[t]) + 1]
             /\ phase' = [phase EXCEPT ![t] = "teardown"]
    ELSE /\ phase' = [phase EXCEPT ![t] = "done"]
         /\ tdCall' = [tdCall EXCEPT ![t] = 0]
         /\ UNCHANGED <<calls, requests, tdIdx>>

\* use() resolves, whatever way the body ended: the array is reversed in
\* place and the loop starts.
TeardownStarts(t) ==
    /\ phase[t] = "exited"
    /\ LET array == TeardownOrder(tracked[Slot(t)])
       IN  /\ tracked' = [tracked EXCEPT ![Slot(t)] = array]
           /\ tdLen' = [tdLen EXCEPT ![t] = Len(array)]
           /\ TeardownIterate(t, array, 1)
    /\ UNCHANGED <<exit, nextNumber, pushOrder, libVars>>

\* The loop going on to the next element without awaiting the close call.
TeardownResumesEarly(t) ==
    /\ phase[t] = "teardown"
    /\ tdCall[t] # 0
    /\ TeardownIterate(t, tracked[Slot(t)], tdIdx[t] + 1)
    /\ UNCHANGED <<exit, tracked, nextNumber, tdLen, pushOrder, libVars>>

\* The awaited close call has settled: a returned response, whatever its
\* status, lets the loop go on to the next element; a fault ends the fixture
\* function there.
TeardownResumes(t) ==
    /\ phase[t] = "teardown"
    /\ tdCall[t] # 0
    /\ calls[t][tdCall[t]].pc \in {"returned", "threw"}
    /\ IF calls[t][tdCall[t]].pc = "returned"
       THEN TeardownIterate(t, tracked[Slot(t)], tdIdx[t] + 1)
       ELSE /\ phase' = [phase EXCEPT ![t] = "aborted"]
            /\ tdCall' = [tdCall EXCEPT ![t] = 0]
            /\ UNCHANGED <<calls, requests, tdIdx>>
    /\ UNCHANGED <<exit, tracked, nextNumber, tdLen, pushOrder, libVars>>

(***************************************************************************)
(* Specifications.                                                         *)
(***************************************************************************)
CreateArgs == {[owner |-> o, repo |-> r, data |-> p] :
                    o \in Owners, r \in Repos, p \in IssuePayloads}

\* The steps of the calls and of the fixture, for test t, with the bodies of
\* success responses and the ways the body ends drawn from kinds and exits.
Lifecycle(t, kinds, exits) ==
    \/ \E c \in 1..Len(calls[t]), status \in Statuses, kind \in kinds :
          TransportResponds(t, c, status, kind)
    \/ \E c \in 1..Len(calls[t]) : TransportFaults(t, c)
    \/ \E c \in 1..Len(calls[t]) : TextResolves(t, c)
    \/ \E c \in 1..Len(calls[t]) : JsonSettles(t, c)
    \/ \E kind \in exits : BodyExits(t, kind)
    \/ TeardownStarts(t)
    \/ TeardownResumes(t)

\* One test that creates issues through its fixture.
Next ==
    \/ \E args \in CreateArgs : StartCall(1, "createIssue", args, MaxCalls)
    \/ Lifecycle(1, {"issue", "nonjson"}, ExitKinds)

Spec == Init /\ [][Next]_vars

\* One test that creates issues whose bodies decode, and completes.
NextOrder ==
    \/ \E args \in CreateArgs : StartCall(1, "createIssue", args, MaxCalls)
    \/ Lifecycle(1, {"issue"}, {"passed"})

SpecOrder == Init /\ [][NextOrder]_vars

\* Tests that run concurrently, each creating issues through its own fixture.
NextTests ==
    \E t \in Tests :
        \/ \E args \in CreateArgs : StartCall(t, "createIssue", args, MaxTestsCalls)
        \/ Lifecycle(t, {"issue"}, {"passed"})

SpecTests == Init /\ [][NextTests]_vars

ItemArgs == {[owner |-> o, repo |-> r, number |-> n] :
                    o \in ServiceOwners, r \in Repos, n \in IssueNumbers}

\* The calls a test body can make on the service and on the client.
ServiceCalls ==
    {<<"createIssue", [owner |-> o, repo |-> r, data |-> p]>> :
        o \in ServiceOwners, r \in Repos, p \in IssuePayloads}
    \cup {<<"getIssues", [owner |-> o, repo |-> r]>> : o \in ServiceOwners, r \in Repos}
    \cup {<<op, a>> : op \in {"getIssueByNumber", "closeIssue", "reopenIssue"}, a \in ItemArgs}
    \cup {<<"updateIssue", [owner |-> a.owner, repo |-> a.repo, number |-> a.number, data |-> p]>> :
            a \in ItemArgs, p \in PartialPayloads}
    \cup {<<op, [path |-> q, data |-> d]>> :
            op \in {"sendGetRequest", "sendPostRequest", "sendPutRequest", "sendPatchRequest"},
            q \in Paths, d \in IssuePayloads \cup {NoData}}
    \cup {<<"sendDeleteRequest", [path |-> q]>> : q \in Paths}

\* One test that uses every operation of the service and of the client.
NextService ==
    \/ \E call \in ServiceCalls : StartCall(1, call[1], call[2], MaxServiceCalls)
    \/ Lifecycle(1, BodyKinds, {"passed"})

SpecService == Init /\ [][NextService]_vars

\* The calls of a test body that creates issues and then reads, updates,
\* closes or reopens the first issue of the server.
InterceptCalls ==
    {<<"createIssue", a>> : a \in CreateArgs}
    \cup {<<"getIssues", [owner |-> a.owner, repo |-> a.repo]>> : a \in CreateArgs}
    \cup {<<op, [owner |-> a.owner, repo |-> a.repo, number |-> 1]>> :
            op \in {"getIssueByNumber", "closeIssue", "reopenIssue"}, a \in CreateArgs}
    \cup {<<"updateIssue", [owner |-> a.owner, repo |-> a.repo, number |-> 1,
                            data |-> [title |-> "New Title"]]>> : a \in CreateArgs}

\* One test that uses the other operations of its service next to createIssue.
NextIntercept ==
    \/ \E call \in InterceptCalls : StartCall(1, call[1], call[2], MaxInterceptCalls)
    \/ Lifecycle(1, {"issue"}, {"passed"})

SpecIntercept == Init /\ [][NextIntercept]_vars

(***************************************************************************)
(* IssueFactory: payloads built from the random source and the date.       *)
(***************************************************************************)
\* Outputs of faker.lorem.sentence(); the empty one stands for the least a
\* random source can give.
Sentences == {"", "Lorem ipsum.", "Dolor sit amet."}

\* Outputs of faker.lorem.paragraphs(2).
Paragraphs == {"Lorem.\nIpsum.", "Dolor.\nSit."}

\* The dates of a run, in the order the clock passes them.
Dates ==
    << [weekday |-> "Sat", month |-> "Oct", day |-> 31, year |-> 2026],
       [weekday |-> "Sun", month |-> "Nov", day |-> 1, year |-> 2026],
       [weekday |-> "Mon", month |-> "Nov", day |-> 2, year |-> 2026] >>

\* Date.prototype.toDateString: weekday, month, day of two digits, year.
toDateString(date) ==
    date.weekday \o " " \o date.month \o " "
        \o (IF date.day < 10 THEN "0" ELSE "") \o ToString(date.day)
        \o " " \o ToString(date.year)

\* The factory as it was before the date was added to the title.
createIssueInfoUndated(sentence, paragraphs, date) ==
    [title |-> sentence, body |-> paragraphs, labels |-> <<"bug", "improvement">>]

\* IssueFactory.createIssueInfo, for the outputs of the random source and
\* the date it reads.
createIssueInfo(sentence, paragraphs, date) ==
    [title |-> sentence \o " " \o toDateString(date),
     body |-> paragraphs,
     labels |-> <<"bug", "improvement">>]

\* A test calls the factory: it returns a new payload.
CreateIssueInfo(sentence, paragraphs) ==
    /\ Len(payloads) < MaxPayloads
    /\ payloads' = Append(payloads, createIssueInfo(sentence, paragraphs, Dates[now]))
    /\ UNCHANGED <<fixtureVars, now, matcherVars>>

\* The clock passes midnight.
Tick ==
    /\ now < Len(Dates)
    /\ now' = now + 1
    /\ UNCHANGED <<fixtureVars, payloads, matcherVars>>

NextFactory ==
    \/ \E sentence \in Sentences, paragraphs \in Paragraphs :
          CreateIssueInfo(sentence, paragraphs)
    \/ Tick

SpecFactory == Init /\ [][NextFactory]_vars

(***************************************************************************)
(* The schema matcher: toMatchSchema over the contracts of the responses.  *)
(***************************************************************************)
\* JavaScript values: undefined, null, strings, numbers, booleans and
\* objects, an object being a function from its keys to values.
JsUndefined == [type |-> "undefined"]

JsNull == [type |-> "null"]

Str(s) == [type |-> "string", value |-> s]

Num(n) == [type |-> "number", value |-> n]

Bool(b) == [type |-> "boolean", value |-> b]

Obj(fields) == [type |-> "object", fields |-> fields]

\* The strings of the model that parse as URLs, and as ISO 8601 datetimes.
Urls == {"https://api.github.com/repos/o/r/issues/1", "https://api.github.com/users/u"}

IsoDatetimes == {"2026-10-31T12:00:00Z"}

\* The schemas of zod that the contracts use.
zString == [kind |-> "string"]

zNumber == [kind |-> "number", nonnegative |-> FALSE]

zNumberNonnegative == [kind |-> "number", nonnegative |-> TRUE]

zBoolean == [kind |-> "boolean"]

zUrl == [kind |-> "url"]

zIsoDatetime == [kind |-> "datetime"]

zEnum(options) == [kind |-> "enum", options |-> options]

zNullable(inner) == [kind |-> "nullable", inner |-> inner]

zObject(keys, shape) == [kind |-> "object", keys |-> keys, shape |-> shape]

UserSchema ==
    zObject(<<"login", "id", "avatar_url", "url">>,
            [login |-> zString, id |-> zNumber, avatar_url |-> zUrl, url |-> zUrl])

IssueSchema ==
    zObject(<<"url", "id", "node_id", "number", "title", "user", "state", "locked",
              "comments", "created_at", "updated_at", "body">>,
            [url |-> zUrl,
             id |-> zNumber,
             node_id |-> zString,
             number |-> zNumber,
             title |-> zString,
             user |-> UserSchema,
             state |-> zEnum(<<"open", "closed">>),
             locked |-> zBoolean,
             comments |-> zNumberNonnegative,
             created_at |-> zIsoDatetime,
             updated_at |-> zIsoDatetime,
             body |-> zNullable(zString)])

\* One issue of a validation: the path of the field and the message.
Issue(path, message) == [path |-> path, message |-> message]

\* The message of an enum schema: its options, quoted, with | between them.
RECURSIVE OptionList(_)
OptionList(options) ==
    IF Len(options) = 1 THEN "\"" \o options[1] \o "\""
    ELSE "\"" \o Head(options) \o "\"|" \o OptionList(Tail(options))

RECURSIVE parse(_, _, _)
RECURSIVE parseKeys(_, _, _, _)
\* The issues zod finds in value against schema, in the order it finds them:
\* an object schema goes through the keys of its shape, a key the value does
\* not have being undefined, and ignores the keys it does not know.
parse(sch, value, path) ==
    LET invalidType(expected) ==
            <<Issue(path, "Invalid input: expected " \o expected
                            \o ", received " \o value.type)>>
    IN  CASE sch.kind = "string" ->
                IF value.type = "string" THEN <<>> ELSE invalidType("string")
          [] sch.kind = "number" ->
                IF value.type # "number" THEN invalidType("number")
                ELSE IF sch.nonnegative /\ value.value < 0
                     THEN <<Issue(path, "Too small: expected number to be >=0")>>
                     ELSE <<>>
          [] sch.kind = "boolean" ->
                IF value.type = "boolean" THEN <<>> ELSE invalidType("boolean")
          [] sch.kind = "url" ->
                IF value.type # "string" THEN invalidType("string")
                ELSE IF value.value \in Urls THEN <<>>
                     ELSE <<Issue(path, "Invalid URL")>>
          [] sch.kind = "datetime" ->
                IF value.type # "string" THEN invalidType("string")
                ELSE IF value.value \in IsoDatetimes THEN <<>>
                     ELSE <<Issue(path, "Invalid ISO datetime")>>
          [] sch.kind = "enum" ->
                IF /\ value.type = "string"
                   /\ \E i \in 1..Len(sch.options) : sch.options[i] = value.value
                THEN <<>>
                ELSE <<Issue(path, "Invalid option: expected one of "
                                        \o OptionList(sch.options))>>
          [] sch.kind = "nullable" ->
                IF value.type = "null" THEN <<>> ELSE parse(sch.inner, value, path)
          [] sch.kind = "object" ->
                IF value.type # "object" THEN invalidType("object")
                ELSE parseKeys(sch, value, path, 1)

parseKeys(sch, value, path, i) ==
    IF i > Len(sch.keys) THEN <<>>
    ELSE LET key == sch.keys[i]
             field == IF key \in DOMAIN value.fields
                      THEN value.fields[key] ELSE JsUndefined
         IN  parse(sch.shape[key], field, Append(path, key))
                \o parseKeys(sch, value, path, i + 1)

\* ZodType.safeParse: success, or the error with its issues; it never throws
\* and it leaves the value as it is.
safeParse(sch, value) ==
    LET issues == parse(sch, value, <<>>)
    IN  [success |-> issues = <<>>, error |-> issues]

RECURSIVE Distinct(_)
\* The elements of a sequence in the order of their first occurrence.
Distinct(seq) ==
    IF seq = <<>> THEN <<>>
    ELSE LET init == Distinct(SubSeq(seq, 1, Len(seq) - 1))
             last == seq[Len(seq)]
         IN  IF \E i \in 1..Len(init) : init[i] = last THEN init ELSE Append(init, last)

RECURSIVE treeifyAt(_, _)
\* The node of the error tree at a path: the messages of the issues of that
\* path and, under properties, the nodes of the keys that issues go through.
treeifyAt(issues, prefix) ==
    LET n == Len(prefix)
        here == SelectSeq(issues, LAMBDA e : e.path = prefix)
        below == SelectSeq(issues,
                    LAMBDA e : Len(e.path) > n /\ SubSeq(e.path, 1, n) = prefix)
        keys == Distinct([i \in 1..Len(below) |-> below[i].path[n + 1]])
    IN  [errors |-> [i \in 1..Len(here) |-> here[i].message],
         properties |-> [i \in 1..Len(keys) |->
                            [key |-> keys[i],
                             node |-> treeifyAt(issues, Append(prefix, keys[i]))]]]

\* z.treeifyError.
treeifyError(zodError) == treeifyAt(zodError, <<>>)

\* A JSON string, as the one token it makes.
Quote(s) == "\"" \o s \o "\""

RECURSIVE StringifyErrors(_)
StringifyErrors(errors) ==
    IF errors = <<>> THEN <<>>
    ELSE IF Len(errors) = 1 THEN <<Quote(errors[1])>>
    ELSE <<Quote(Head(errors)), ",">> \o StringifyErrors(Tail(errors))

RECURSIVE StringifyTree(_)
RECURSIVE StringifyProperties(_)
\* JSON.stringify of a node of the error tree, as the sequence of its
\* tokens; the white space between the tokens is left out. A node without
\* properties has no "properties" key.
StringifyTree(node) ==
    <<"{", Quote("errors"), ":", "[">> \o StringifyErrors(node.errors) \o <<"]">>
        \o (IF node.properties = <<>> THEN <<>>
            ELSE <<",", Quote("properties"), ":", "{">>
                    \o StringifyProperties(node.properties) \o <<"}">>)
        \o <<"}">>

StringifyProperties(properties) ==
    LET first == <<Quote(Head(properties).key), ":">> \o StringifyTree(Head(properties).node)
    IN  IF Len(properties) = 1 THEN first
        ELSE first \o <<",">> \o StringifyProperties(Tail(properties))

\* The matcher passing whatever safeParse reports.
toMatchSchemaPassing(value, sch) ==
    [message |-> <<"expected value not to match schema">>, pass |-> TRUE]

\* toMatchSchema; message is the text its message function returns, as a
\* sequence of tokens.
toMatchSchema(value, sch) ==
    LET result == safeParse(sch, value)
    IN  IF result.success
        THEN [message |-> <<"expected value not to match schema">>, pass |-> TRUE]
        ELSE LET formattedError == StringifyTree(treeifyError(result.error))
             IN  [message |-> <<"Schema validation failed:\n">> \o formattedError,
                  pass |-> FALSE]

\* Values that conform to the contracts.
ValidUser ==
    Obj([login |-> Str("octocat"), id |-> Num(1),
         avatar_url |-> Str("https://api.github.com/users/u"),
         url |-> Str("https://api.github.com/users/u")])

ValidIssue ==
    Obj([url |-> Str("https://api.github.com/repos/o/r/issues/1"),
         id |-> Num(1001),
         node_id |-> Str("I_1"),
         number |-> Num(1),
         title |-> Str("T"),
         user |-> ValidUser,
         state |-> Str("open"),
         locked |-> Bool(FALSE),
         comments |-> Num(0),
         created_at |-> Str("2026-10-31T12:00:00Z"),
         updated_at |-> Str("2026-10-31T12:00:00Z"),
         body |-> Str("B")])

\* A defect removes the field at a path (to = Absent) or puts another value
\* there.
Absent == [type |-> "absent"]

Defect(path, to) == [path |-> path, to |-> to]

UserDefects ==
    {Defect(<<key>>, Absent) : key \in {"login", "id", "avatar_url", "url"}}
    \cup {Defect(<<"login">>, Num(7)), Defect(<<"id">>, Str("1")),
          Defect(<<"url">>, Str("not a url")), Defect(<<"avatar_url">>, JsNull)}

IssueDefects ==
    {Defect(<<key>>, Absent) : key \in DOMAIN IssueSchema.shape}
    \cup {Defect(<<"user">> \o d.path, d.to) : d \in UserDefects}
    \cup {Defect(<<"id">>, Str("1001")), Defect(<<"title">>, Num(1)),
          Defect(<<"url">>, Str("not a url")), Defect(<<"state">>, Str("reopened")),
          Defect(<<"locked">>, Str("false")), Defect(<<"comments">>, Num(-1)),
          Defect(<<"created_at">>, Str("yesterday")), Defect(<<"body">>, JsNull),
          Defect(<<"body">>, Num(0)), Defect(<<"user">>, JsNull),
          Defect(<<"extra">>, Str("x"))}

\* Two defects can be in one value if neither path leads through the other.
Apart(d, e) ==
    LET n == IF Len(d.path) < Len(e.path) THEN Len(d.path) ELSE Len(e.path)
    IN  SubSeq(d.path, 1, n) # SubSeq(e.path, 1, n)

RECURSIVE DefectSets(_, _)
\* The sets of at most n defects that can be in one value.
DefectSets(defects, n) ==
    IF n = 0 THEN {{}}
    ELSE LET smaller == DefectSets(defects, n - 1)
         IN  smaller \cup
                UNION {{set \cup {d} : d \in {e \in defects : \A x \in set : Apart(e, x)}} :
                            set \in smaller}

RECURSIVE Alter(_, _, _)
\* The object with the field at path removed or replaced.
Alter(value, path, to) ==
    LET key == Head(path)
        fields == value.fields
    IN  IF Len(path) > 1
        THEN Obj([x \in DOMAIN fields |->
                    IF x = key THEN Alter(fields[x], Tail(path), to) ELSE fields[x]])
        ELSE IF to = Absent
        THEN Obj([x \in DOMAIN fields \ {key} |-> fields[x]])
        ELSE Obj([x \in DOMAIN fields \cup {key} |-> IF x = key THEN to ELSE fields[x]])

RECURSIVE AlterAll(_, _)
AlterAll(value, set) ==
    IF set = {} THEN value
    ELSE LET d == CHOOSE x \in set : TRUE
         IN  AlterAll(Alter(value, d.path, d.to), set \ {d})

\* The values and contracts the matcher is called with: values that are no
\* objects, conforming values with defects, and the conforming value of the
\* other contract.
MatcherInputs ==
    {[received |-> v, schema |-> sch] :
        v \in {JsUndefined, JsNull, Str("text"), Obj(<<>>)},
        sch \in {IssueSchema, UserSchema}}
    \cup {[received |-> AlterAll(ValidIssue, set), schema |-> IssueSchema] :
            set \in DefectSets(IssueDefects, MaxDefects)}
    \cup {[received |-> AlterAll(ValidUser, set), schema |-> UserSchema] :
            set \in DefectSets(UserDefects, MaxDefects)}
    \cup {[received |-> ValidUser, schema |-> IssueSchema],
          [received |-> ValidIssue, schema |-> UserSchema]}

\* A test is about to hand a value and a contract to the matcher.
InitSchema ==
    /\ InitFixture
    /\ now = 1
    /\ payloads = <<>>
    /\ \E input \in MatcherInputs :
          /\ received = input.received
          /\ schema = input.schema
    /\ matcherResult = None

\* expect(received).toMatchSchema(schema): the matcher returns its result.
ToMatchSchema ==
    /\ received # None
    /\ matcherResult = None
    /\ matcherResult' = toMatchSchema(received, schema)
    /\ UNCHANGED <<fixtureVars, factoryVars, received, schema>>

NextSchema == ToMatchSchema

SpecSchema == InitSchema /\ [][NextSchema]_vars

(***************************************************************************)
(* Properties.                                                             *)
(***************************************************************************)
\* The close calls teardown has made for test t, in the order it made them.
TeardownCalls(t) == SelectSeq(calls[t], LAMBDA call : call.by = "teardown")

Finished(t) == phase[t] \in {"done", "aborted"}

\* The createIssue calls of the body of test t.
CreateCalls(t) == {c \in BodyCalls(t) : calls[t][c].op = "createIssue"}

\* Call c of test t was tracked before teardown began.
TrackedBeforeTeardown(t, c) ==
    \E i \in 1..Len(pushOrder[t]) : i <= tdLen[t] /\ pushOrder[t][i].cid = c

\* C1: once the teardown of a test has finished, every issue whose creation
\* returned a success status to the test body has received a close call.
\* Stated for the creations that returned before teardown began.
C1_CreatedIssuesClosed ==
    \A t \in Tests :
        Finished(t) =>
            \A c \in CreateCalls(t) :
                (/\ calls[t][c].pc = "returned"
                 /\ ok(calls[t][c].ret)
                 /\ TrackedBeforeTeardown(t, c))
                => \E d \in 1..Len(TeardownCalls(t)) :
                      TeardownCalls(t)[d].args =
                          [owner |-> calls[t][c].args.owner,
                           repo |-> calls[t][c].args.repo,
                           number |-> calls[t][c].ret.number]

\* A close call that failed: the transport raised a fault, or the response
\* has a status outside [200,300).
CloseFailed(call) ==
    \/ call.pc = "threw"
    \/ call.pc = "returned" /\ ~ok(call.ret)

\* C4: teardown runs after every way the test body can end, and once it has
\* finished, the close calls it has made for the records tracked before it
\* began are as many as those records, whatever the outcome of the body.
C4_TeardownClosesAllTracked ==
    \A t \in Tests :
        (exit[t] \in ExitKinds /\ Finished(t)) =>
            Cardinality({d \in 1..Len(TeardownCalls(t)) : d <= tdLen[t]}) = tdLen[t]

\* C5: when the close call for one record fails in teardown, by a transport
\* fault or by a non-success status, every record after it in the array that
\* teardown walks still gets its close call.
C5_FailedCloseDoesNotStopCleanup ==
    \A t \in Tests :
        Finished(t) =>
            \A d \in 1..Len(TeardownCalls(t)) :
                CloseFailed(TeardownCalls(t)[d]) =>
                    \A i \in (d + 1)..tdLen[t] :
                        /\ i <= Len(TeardownCalls(t))
                        /\ TeardownCalls(t)[i].args = tracked[Slot(t)][i]

\* C7: the wrapped createIssue gives its caller what the original createIssue
\* gave the wrapper: the same response when the original returned one, a fault
\* only when the original raised one, and nothing before the original settled.
C7_WrapperTransparent ==
    \A t \in Tests :
        \A c \in CreateCalls(t) :
            /\ calls[t][c].pc = "returned" =>
                    calls[t][c].orig = "returned" /\ calls[t][c].ret = calls[t][c].origRet
            /\ calls[t][c].pc = "threw" => calls[t][c].orig = "threw"
            /\ calls[t][c].orig = "pending" => calls[t][c].pc \in {"inflight", "readingText"}

\* The calls of test t that have settled: returned to or thrown at the caller.
Settled(t) == {c \in 1..Len(calls[t]) : calls[t][c].pc \in {"returned", "threw"}}

\* The pushes the wrapper has made for call c of test t.
PushesOf(t, c) == {i \in 1..Len(pushOrder[t]) : pushOrder[t][i].cid = c}

Decodes(response) == response.kind \notin {"null", "nonjson"}

\* The number property of the decoded body (undefined when it has none).
BodyNumber(response) ==
    IF response.kind = "issue" THEN response.number ELSE Undefined

Min(a, b) == IF a <= b THEN a ELSE b

Count(s, x) == Cardinality({i \in 1..Len(s) : s[i] = x})

\* C6: teardown makes at most one close call per tracked record, a close
\* call that failed is not made again, every close call is for the owner,
\* repo and number of a tracked record, and none is made before teardown;
\* a test whose single creation returned an issue ends with exactly one
\* close call, for that issue's number.
C6_OneClosePerRecord ==
    \A t \in Tests :
        /\ \A d \in 1..Len(TeardownCalls(t)) :
              LET target == TeardownCalls(t)[d].args
              IN  /\ Count(tracked[Slot(t)], target) >= 1
                  /\ Count([k \in 1..Len(TeardownCalls(t)) |-> TeardownCalls(t)[k].args],
                           target)
                        <= Count(tracked[Slot(t)], target)
        /\ phase[t] \in {"body", "exited"} => TeardownCalls(t) = <<>>
        /\ (/\ Finished(t)
            /\ Cardinality(CreateCalls(t)) = 1
            /\ tdLen[t] = 1
            /\ \A c \in CreateCalls(t) : calls[t][c].response.kind = "issue")
           => /\ Len(TeardownCalls(t)) = 1
              /\ \A c \in CreateCalls(t) :
                    TeardownCalls(t)[1].args.number = calls[t][c].response.number

\* A test with one creation has finished teardown, whose one close call
\* failed and was not made again.
C6_Witness ==
    /\ Finished(1)
    /\ Cardinality(CreateCalls(1)) = 1
    /\ tdLen[1] = 1
    /\ Len(TeardownCalls(1)) = 1
    /\ CloseFailed(TeardownCalls(1)[1])

\* The records that creations through the service of test t have added.
RecordsOf(t) == {pushOrder[t][j].record : j \in 1..Len(pushOrder[t])}

\* C8: with tests running concurrently, the array of a test holds exactly the
\* records of the creations made through that test's own service, none of
\* them is in the array of another test, and the teardown of a test makes
\* close calls only for records of its own creations.
C8_TestsDisjoint ==
    \A t \in Tests :
        /\ Len(tracked[Slot(t)]) = Len(pushOrder[t])
        /\ \A i \in 1..Len(tracked[Slot(t)]) : tracked[Slot(t)][i] \in RecordsOf(t)
        /\ \A d \in 1..Len(TeardownCalls(t)) : TeardownCalls(t)[d].args \in RecordsOf(t)
        /\ \A u \in Tests \ {t} :
              \A i \in 1..Len(tracked[Slot(u)]) : tracked[Slot(u)][i] \notin RecordsOf(t)

\* Two tests have each tracked one creation and closed it in teardown, the
\* test that started second having been served first.
C8_Witness ==
    /\ phase[1] = "done" /\ phase[2] = "done"
    /\ tdLen[1] = 1 /\ tdLen[2] = 1
    /\ TeardownCalls(1)[1].args.number = 2
    /\ TeardownCalls(2)[1].args.number = 1

\* C9: an operation of the client or of the service that returns, returns
\* the response the transport gave it, unchanged and with its body not
\* decoded; it returns a response with a failure status like any other and
\* raises no fault for it; it raises a fault exactly when the transport
\* raised one, and then the caller gets that fault.
C9_ResponseIsData ==
    \A t \in Tests :
        \A c \in 1..Len(calls[t]) :
            LET call == calls[t][c]
            IN  /\ call.orig = "returned" =>
                      call.response # NoResponse /\ call.origRet = call.response
                /\ call.orig = "threw" <=> call.fault = "transport"
                /\ call.fault = "transport" => call.pc = "threw"
                /\ (call.response # NoResponse /\ ~ok(call.response)) =>
                      call.pc \in {"readingText", "returned"} /\ call.fault = "none"
                /\ call.op # "createIssue" =>
                      /\ call.pc # "decoding"
                      /\ call.pc = "returned" => call.ret = call.response

\* An operation has returned a response with a failure status to its caller.
C9_Witness ==
    \E c \in 1..Len(calls[1]) :
        /\ calls[1][c].op = "updateIssue"
        /\ calls[1][c].pc = "returned"
        /\ calls[1][c].ret.status = 404

\* The endpoints as the specification gives them.
CollectionPath(a) == "/repos/" \o a.owner \o "/" \o a.repo \o "/issues"

ItemPath(a) == "/repos/" \o a.owner \o "/" \o a.repo \o "/issues/" \o ToString(a.number)

\* The request the specification assigns to a call of a service operation.
Assigned(op, a) ==
    CASE op = "createIssue" ->
            [method |-> "POST", path |-> CollectionPath(a), data |-> a.data]
      [] op = "getIssues" ->
            [method |-> "GET", path |-> CollectionPath(a), data |-> NoData]
      [] op = "getIssueByNumber" ->
            [method |-> "GET", path |-> ItemPath(a), data |-> NoData]
      [] op = "updateIssue" ->
            [method |-> "PATCH", path |-> ItemPath(a), data |-> a.data]
      [] op = "closeIssue" ->
            [method |-> "POST", path |-> ItemPath(a), data |-> [state |-> "closed"]]
      [] op = "reopenIssue" ->
            [method |-> "POST", path |-> ItemPath(a), data |-> [state |-> "open"]]

\* C10: each call of a service operation, by the test body or by teardown,
\* has put exactly one request on the transport, with the method, endpoint
\* and body the specification assigns to the operation; the endpoint of the
\* item ("o", "r", 42) is "/repos/o/r/issues/42".
C10_RequestsAsSpecified ==
    \A t \in Tests :
        /\ Len(requests[t]) = Len(calls[t])
        /\ \A c \in 1..Len(calls[t]) :
              LET call == calls[t][c]
              IN  /\ (/\ call.op \in {"createIssue", "getIssues", "getIssueByNumber",
                                      "updateIssue", "closeIssue", "reopenIssue"}
                      /\ "number" \in DOMAIN call.args => call.args.number # Undefined)
                     => requests[t][c] = Assigned(call.op, call.args)
                  /\ (/\ call.op \in {"getIssueByNumber", "updateIssue",
                                      "closeIssue", "reopenIssue"}
                      /\ call.args.owner = "o" /\ call.args.repo = "r"
                      /\ call.args.number = 42)
                     => requests[t][c].path = "/repos/o/r/issues/42"

\* The test body has called closeIssue("o", "r", 42).
C10_Witness ==
    \E c \in 1..Len(calls[1]) :
        /\ calls[1][c].op = "closeIssue"
        /\ calls[1][c].by = "body"
        /\ calls[1][c].args = [owner |-> "o", repo |-> "r", number |-> 42]
        /\ requests[1][c].method = "POST"

\* The teardown close calls of test t that have not settled.
ClosesInFlight(t) ==
    {c \in 1..Len(calls[t]) :
        calls[t][c].by = "teardown" /\ calls[t][c].pc \notin {"returned", "threw"}}

\* C14: teardown makes no close call while the test body runs, it has at
\* most one close call in flight, and when it makes a close call every close
\* call it made before has settled.
C14_TeardownSequential ==
    \A t \in Tests :
        /\ exit[t] = "none" => TeardownCalls(t) = <<>>
        /\ Cardinality(ClosesInFlight(t)) <= 1
        /\ \A d \in 1..(Len(TeardownCalls(t)) - 1) :
              TeardownCalls(t)[d].pc = "returned"
        /\ \A c \in ClosesInFlight(t) : phase[t] = "teardown" /\ tdCall[t] = c

\* Teardown has closed one record and awaits the close call for the next.
C14_Witness ==
    /\ phase[1] = "teardown"
    /\ Len(TeardownCalls(1)) = 2
    /\ TeardownCalls(1)[1].pc = "returned"
    /\ TeardownCalls(1)[2].pc = "inflight"

\* C15 as stated: once teardown has finished, the array of the test is
\* empty. Stated for the runs in which nothing was tracked after teardown
\* began.
C15_ClearedAfterTeardown ==
    \A t \in Tests :
        (Finished(t) /\ Len(pushOrder[t]) = tdLen[t]) => tracked[Slot(t)] = <<>>

\* C15, amended: teardown reverses the array once and walks it, and never
\* removes a record: the array always holds as many records as were tracked,
\* and from the start of teardown on it begins with the records that were
\* tracked before, last tracked first.
C15_ReversedNotCleared ==
    \A t \in Tests :
        /\ Len(tracked[Slot(t)]) = Len(pushOrder[t])
        /\ phase[t] \in {"teardown", "done", "aborted"} =>
              /\ tdLen[t] <= Len(tracked[Slot(t)])
              /\ \A i \in 1..tdLen[t] :
                    tracked[Slot(t)][i] = pushOrder[t][tdLen[t] + 1 - i].record

\* Teardown has finished normally and the array still holds its two records.
C15_Witness ==
    /\ phase[1] = "done"
    /\ tdLen[1] = 2
    /\ Len(tracked[Slot(1)]) = 2
    /\ Len(TeardownCalls(1)) = 2

\* The createIssue calls of test t that returned a success response.
Succeeded(t) ==
    {c \in CreateCalls(t) : calls[t][c].pc = "returned" /\ ok(calls[t][c].ret)}

C18_NoRecordAfterTeardownBegan ==
    \A t \in Tests :
        phase[t] \in {"teardown", "done", "aborted"} =>
            Len(tracked[Slot(t)]) = tdLen[t]

\* The record of the creation call c of test t.
RecordOfCall(t, c) ==
    [owner |-> calls[t][c].args.owner, repo |-> calls[t][c].args.repo,
     number |-> calls[t][c].ret.number]

\* The tracked creations of test t whose issue the test body has closed.
ClosedByBody(t) ==
    {c \in Succeeded(t) :
        \E d \in BodyCalls(t) :
            /\ calls[t][d].op = "closeIssue"
            /\ calls[t][d].pc = "returned"
            /\ calls[t][d].args = RecordOfCall(t, c)}

\* No operation other than createIssue adds or removes a record, whether
\* the test body or teardown calls it: the array holds one record per
\* creation that returned success, and the record of an issue the test body
\* has closed is still among them.
OnlyCreateChangesArray(t) ==
    /\ \A c \in 1..Len(calls[t]) :
          calls[t][c].op # "createIssue" => PushesOf(t, c) = {}
    /\ Len(tracked[Slot(t)]) = Cardinality(Succeeded(t))
    /\ \A c \in ClosedByBody(t) : Count(tracked[Slot(t)], RecordOfCall(t, c)) = 1

\* C16: only createIssue is intercepted, so the other operations leave the
\* array as it is, and an issue the test body has closed stays tracked and,
\* if tracked before teardown began, has its close call from teardown once
\* teardown has finished.
C16_OnlyCreateIntercepted ==
    \A t \in Tests :
        /\ OnlyCreateChangesArray(t)
        /\ \A c \in ClosedByBody(t) :
              (Finished(t) /\ TrackedBeforeTeardown(t, c)) =>
                    \E k \in 1..Len(TeardownCalls(t)) :
                        TeardownCalls(t)[k].args = RecordOfCall(t, c)

\* The entries of the given level in the log of call c of test t.
Logged(t, c, level) ==
    {calls[t][c].log[i].message :
        i \in {j \in 1..Len(calls[t][c].log) : calls[t][c].log[j].level = level}}

\* The log of a settled call is as the contract of the client says: method
\* and path at info level, the payload if present at debug level, the body
\* text of a failed response at error level and nothing of a success body.
LoggedAsSpecified(t, c) ==
    LET call == calls[t][c]
        request == requests[t][c]
    IN  /\ ("[" \o request.method \o "] " \o request.path) \in Logged(t, c, "info")
        /\ request.data # NoData => Logged(t, c, "debug") # {}
        /\ (call.response # NoResponse /\ ~ok(call.response)) =>
                Logged(t, c, "error") # {}
        /\ ok(call.response) => Logged(t, c, "error") = {}

\* C13: every call of a client operation, once it has settled, has logged its
\* method and path at info level, its payload if present at debug level, and
\* the body text at error level if the status is a failure; the body of a
\* success response is never being read by the client.
C13_EveryCallLogged ==
    \A t \in Tests : \A c \in 1..Len(calls[t]) :
        /\ c \in Settled(t) => LoggedAsSpecified(t, c)
        /\ ok(calls[t][c].response) => calls[t][c].pc # "readingText"

Names(message, key) ==
    \E i \in 1..(Len(message) - 1) : message[i] = Quote(key) /\ message[i + 1] = ":"

\* The keys on the paths of the issues of an error.
ViolatedKeys(zodError) ==
    UNION {{zodError[i].path[j] : j \in 1..Len(zodError[i].path)} : i \in 1..Len(zodError)}

\* C11: toMatchSchema returns, without throwing, pass = true exactly when
\* safeParse of the contract reports success; on success the diagnostic is
\* the fixed placeholder, on failure it is the serialized tree of the
\* violated field paths, so that a value without the required field id fails
\* with a diagnostic that names id; and the value is not changed.
C11_MatcherResult ==
    /\ [](matcherResult # None =>
            LET result == safeParse(schema, received)
                message == matcherResult.message
            IN  /\ DOMAIN matcherResult = {"message", "pass"}
                /\ matcherResult.pass = result.success
                /\ matcherResult.pass =>
                        message = <<"expected value not to match schema">>
                /\ ~matcherResult.pass =>
                        /\ Head(message) = "Schema validation failed:\n"
                        /\ Tail(message) = StringifyTree(treeifyError(result.error))
                        /\ \A key \in ViolatedKeys(result.error) : Names(message, key)
                        /\ \A key \in DOMAIN schema.shape \cup DOMAIN UserSchema.shape :
                                Names(message, key) => key \in ViolatedKeys(result.error)
                /\ (received = ValidIssue /\ schema = IssueSchema) => matcherResult.pass
                /\ (/\ schema = IssueSchema
                    /\ received.type = "object"
                    /\ "id" \notin DOMAIN received.fields) =>
                        ~matcherResult.pass /\ Names(message, "id"))
    /\ [][received' = received /\ schema' = schema]_vars

\* The matcher has returned for an issue that lacks id and nothing else.
C11_Witness ==
    /\ matcherResult # None
    /\ schema = IssueSchema
    /\ received = Alter(ValidIssue, <<"id">>, Absent)
    /\ ~matcherResult.pass

====
